---- MODULE Spec2Model ----
(***************************************************************************)
(* Booking lifecycle of the carparkly backend: BookingService              *)
(* (createBooking, updateBooking, updateBookingStatus, cancelBooking,      *)
(* autoCancelExpiredBookings) over the Booking, Partner and Payment        *)
(* repositories.                                                           *)
(*                                                                         *)
(* Every service function is an async function; each `await` of a          *)
(* repository call is one atomic step of the document store, and other     *)
(* requests may run between two awaits.  A call in flight is a record in   *)
(* `calls` with its position `pc` and its JavaScript locals.               *)
(*                                                                         *)
(* Documents carry the fields the service reads and writes (partnerId,     *)
(* clientId, startTime, endTime, status, amount, paymentId, auditLogs,     *)
(* createdAt); the Booking schema spells some of them userId,              *)
(* bookingStart, bookingEnd and amountPaid, and the model follows the      *)
(* service.  Schema validation of fields the service does not touch is     *)
(* taken to pass.  Time is counted in ticks of 15 minutes.                 *)
(*                                                                         *)
(* Specifications: Spec (createBooking, one request at a time),            *)
(* SpecCancel (createBooking and cancelBooking, one request at a time),    *)
(* SpecSweep (autoCancelExpiredBookings over a populated store, with a     *)
(* store call that may fail), SpecRace (two createBooking calls            *)
(* interleaved), SpecCancelFault (cancelBooking with a store call that     *)
(* may fail), SpecStatus (createBooking and updateBookingStatus),          *)
(* SpecLife (all five writing operations, one request at a time),          *)
(* SpecPayRef (createBooking and payment deletion), SpecSweepRace (two     *)
(* sweeps interleaved), SpecOverlap (createBooking and confirmation),      *)
(* SpecSweepConfirm (a sweep interleaved with confirmations).              *)
(*                                                                         *)
(* The account services work on the User and Admin collections and the     *)
(* in-memory token blacklist of AuthService: SpecLogin (handleFailedLogin  *)
(* and resetFailedLoginAttempts, one request at a time), SpecLoginRace     *)
(* (two handleFailedLogin calls interleaved), SpecAuth (authenticateUser,  *)
(* verifyToken, logoutUser), SpecAdmin (updateAdminRole), SpecReset        *)
(* (generatePasswordResetToken, resetPassword).                            *)
(***************************************************************************)
EXTENDS Integers, Sequences, FiniteSets, TLC

VARIABLES
  bookings,   \* Booking collection: sequence of documents, _id = index
  partners,   \* Partner collection: partnerId -> document
  payments,   \* Payment collection: paymentId -> document
  now,        \* Date.now(), in ticks
  calls,      \* service calls in flight or just returned, by slot
  refundLog,  \* history: PaymentRepository.processRefund invocations
  checkLen,   \* history: per booking, collection size its conflict query saw
  faults,     \* number of store calls that have been made to fail
  users,      \* User collection: userId -> document
  admins,     \* Admin collection: adminId -> document
  blacklist,  \* AuthService's TokenBlacklist, a Set of token strings
  failedCalls \* history: per user, handleFailedLogin calls since the last reset

vars == <<bookings, partners, payments, now, calls, refundLog, checkLen, faults,
          users, admins, blacklist, failedCalls>>

\* The state of the user, admin and auth services, which the booking
\* service does not touch, and the state of the booking service.
authVars == <<users, admins, blacklist, failedCalls>>

bookingVars == <<bookings, partners, payments, refundLog, checkLen, faults>>

(***************************************************************************)
(* Bounds of the model.                                                    *)
(***************************************************************************)
MaxBookings == 2        \* bookings stored under Spec
MaxCancelBookings == 2  \* bookings stored under SpecCancel
MaxCancels == 2         \* cancelBooking calls made under SpecCancel
MaxSeed == 11           \* bookings in the store under SpecSweep
MaxNow == 5             \* last clock tick
MaxFaults == 1          \* store calls made to fail
MaxRaceBookings == 2    \* bookings stored under SpecRace
MaxFaultBookings == 1   \* bookings stored under SpecCancelFault
MaxStatusBookings == 1  \* bookings stored under SpecStatus
MaxStatusUpdates == 2   \* audit entries written under SpecStatus
MaxLifeBookings == 1    \* bookings stored under SpecLife
MaxLifeEntries == 2     \* audit entries written under SpecLife
MaxLifeNow == 3         \* last clock tick under SpecLife
MaxPayRefBookings == 1  \* bookings stored under SpecPayRef
MaxOverlapBookings == 2 \* bookings stored under SpecOverlap
MaxOverlapUpdates == 1  \* audit entries written under SpecOverlap
MaxMixSeed == 2         \* bookings in the store under SpecSweepConfirm
MaxMixEntries == 3      \* audit entries that allow a further updateBookingStatus
MaxFails == 6           \* failed logins counted per user under SpecLogin
MaxRaceFails == 5       \* handleFailedLogin calls made under SpecLoginRace

(***************************************************************************)
(* Program constants.                                                      *)
(***************************************************************************)
DefaultLimit == 10      \* searchBookings: const { limit = 10, ... } = options
ExpiryTicks == 2        \* 30 * 60 * 1000 ms = 2 ticks of 15 minutes
LockThreshold == 5      \* const accountLocked = failedAttempts >= 5

Slots == {1, 2}
Idle == [op |-> "idle", pc |-> "done"]

BookingStatuses ==
  {"pending", "confirmed", "completed", "cancelled", "expired", "no-show"}

NoStatus == "NoStatus"    \* bookingData carries no status field
NoPayment == "NoPayment"  \* bookingData carries no paymentId (falsy)

Min(a, b) == IF a < b THEN a ELSE b

(***************************************************************************)
(* Collections as they stand before any booking request.                   *)
(***************************************************************************)
PartnerTable ==
  [p \in {"p1", "p2", "p3", "p4", "p5"} |->
     [status |-> CASE p = "p1" -> "active"
                   [] p = "p2" -> "active"
                   [] p = "p3" -> "pending"
                   [] p = "p4" -> "suspended"
                   [] OTHER    -> "deleted",
      auditLogs |-> <<>>]]

PaymentTable ==
  [p \in {"pay1", "pay2"} |-> [isRefunded |-> FALSE, refundAmount |-> 0]]

\* Users as stored, with the fields the user and auth services write.
\* bcrypt.hash(password, salt): the stored value is not the password, and
\* bcrypt.compare(password, hash) holds exactly for the password hashed.
HashPassword(password) == <<"bcrypt", password>>

UserTable ==
  [u \in {"u1", "u2"} |->
     [failedLoginAttempts |-> 0, accountLocked |-> FALSE, password |-> HashPassword("pw0"),
      resetToken |-> "null", resetTokenExpires |-> 0, auditLogs |-> <<>>]]

\* adminSchema.role: enum ['superadmin', 'supervisor'].
AdminRoles == {"superadmin", "supervisor"}

AdminTable ==
  [a \in {"a1", "a2"} |-> [role |-> IF a = "a1" THEN "superadmin" ELSE "supervisor"]]

AuthInit ==
  /\ users = UserTable
  /\ admins = AdminTable
  /\ blacklist = {}
  /\ failedCalls = [u \in DOMAIN UserTable |-> 0]

(***************************************************************************)
(* PartnerRepository.findById: the document, or null (here <<>>).          *)
(***************************************************************************)
PartnerRepository_findById(partnerId) ==
  IF partnerId \in DOMAIN partners THEN <<partners[partnerId]>> ELSE <<>>

(***************************************************************************)
(* BookingRepository.findById.                                             *)
(***************************************************************************)
BookingRepository_findById(bookingId) ==
  IF bookingId \in DOMAIN bookings THEN <<bookings[bookingId]>> ELSE <<>>

(***************************************************************************)
(* The filter createBooking hands to searchBookings:                       *)
(*   { partnerId, status: 'confirmed',                                     *)
(*     $or: [ { startTime: { $lt: endTime, $gte: startTime } },            *)
(*            { endTime:   { $gt: startTime, $lte: endTime } } ] }         *)
(***************************************************************************)
ConflictFilter_StartOnly(bookingData, b) ==
  /\ b.partnerId = bookingData.partnerId
  /\ b.status = "confirmed"
  /\ b.startTime < bookingData.endTime /\ b.startTime >= bookingData.startTime

ConflictFilter_AnyStatus(bookingData, b) ==
  /\ b.partnerId = bookingData.partnerId
  /\ \/ (b.startTime < bookingData.endTime /\ b.startTime >= bookingData.startTime)
     \/ (b.endTime > bookingData.startTime /\ b.endTime <= bookingData.endTime)

ConflictFilter(bookingData, b) ==
  /\ b.partnerId = bookingData.partnerId
  /\ b.status = "confirmed"
  /\ \/ (b.startTime < bookingData.endTime /\ b.startTime >= bookingData.startTime)
     \/ (b.endTime > bookingData.startTime /\ b.endTime <= bookingData.endTime)

(***************************************************************************)
(* The filter autoCancelExpiredBookings hands to searchBookings:           *)
(*   { status: 'pending', createdAt: { $lt: Date.now() - 30 min } }        *)
(***************************************************************************)
ExpiredFilter_AnyStatus(t, b) == b.createdAt < t - ExpiryTicks

ExpiredFilter(t, b) ==
  /\ b.status = "pending"
  /\ b.createdAt < t - ExpiryTicks

(***************************************************************************)
(* searchBookings: find(filters).sort('-createdAt').skip(0).limit(10).     *)
(* Equal createdAt is ordered newest _id first.                            *)
(***************************************************************************)
Newer(store, i, j) ==
  \/ store[i].createdAt > store[j].createdAt
  \/ (store[i].createdAt = store[j].createdAt /\ i >= j)

RECURSIVE SortDesc(_, _)
SortDesc(store, ids) ==
  IF ids = {} THEN <<>>
  ELSE LET m == CHOOSE i \in ids : \A j \in ids : Newer(store, i, j)
       IN  <<m>> \o SortDesc(store, ids \ {m})

Limit(seq, n) == SubSeq(seq, 1, Min(n, Len(seq)))

SearchConflicts(bookingData) ==
  Limit(SortDesc(bookings,
                 {i \in DOMAIN bookings : ConflictFilter(bookingData, bookings[i])}),
        DefaultLimit)

SearchExpired(t) ==
  Limit(SortDesc(bookings,
                 {i \in DOMAIN bookings : ExpiredFilter(t, bookings[i])}),
        DefaultLimit)

(***************************************************************************)
(* new Booking(bookingData).save(): schema default status 'pending',       *)
(* timestamps: createdAt = now, no audit entries yet.                      *)
(***************************************************************************)
NewBooking_AlwaysPending(bookingData, t) ==
  [partnerId |-> bookingData.partnerId,
   clientId  |-> bookingData.clientId,
   startTime |-> bookingData.startTime,
   endTime   |-> bookingData.endTime,
   status    |-> "pending",
   amount    |-> bookingData.amount,
   paymentId |-> bookingData.paymentId,
   createdAt |-> t,
   auditLogs |-> <<>>]

NewBooking(bookingData, t) ==
  [partnerId |-> bookingData.partnerId,
   clientId  |-> bookingData.clientId,
   startTime |-> bookingData.startTime,
   endTime   |-> bookingData.endTime,
   status    |-> IF bookingData.status = NoStatus THEN "pending"
                 ELSE bookingData.status,
   amount    |-> bookingData.amount,
   paymentId |-> bookingData.paymentId,
   createdAt |-> t,
   auditLogs |-> <<>>]

(***************************************************************************)
(* Schema validators that save() and runValidators apply to the paths the  *)
(* service writes: status is one of the enum values (or absent), the       *)
(* amount is not negative.  The schema has no validator that relates the   *)
(* start of a booking to its end.                                          *)
(***************************************************************************)
FieldValid(f, v) ==
  CASE f = "status" -> v \in BookingStatuses \cup {NoStatus}
    [] f = "amount" -> v >= 0
    [] OTHER        -> TRUE

SchemaValid(fields) == \A f \in DOMAIN fields : FieldValid(f, fields[f])

Snapshot ==
  [bookings |-> bookings, partners |-> partners, payments |-> payments,
   refundLog |-> refundLog]

NoCallRunning == \A s \in Slots : calls[s].pc = "done"

(***************************************************************************)
(* createBooking(bookingData)                                              *)
(***************************************************************************)
StartCreateBooking(s, bookingData) ==
  /\ calls[s].pc = "done"
  /\ calls' = [calls EXCEPT ![s] =
       [op |-> "createBooking", pc |-> "findPartner", data |-> bookingData,
        result |-> "", seen |-> 0, snap |-> Snapshot]]
  /\ UNCHANGED <<bookings, partners, payments, now, refundLog, checkLen, faults, authVars>>

\* if (!partner || partner.status !== 'active') throw ...
PartnerUnavailable_ExistsOnly(partner) == partner = <<>>

PartnerUnavailable(partner) == partner = <<>> \/ partner[1].status # "active"

\* const partner = await PartnerRepository.findById(bookingData.partnerId);
CreateFindPartner(s) ==
  /\ calls[s].op = "createBooking" /\ calls[s].pc = "findPartner"
  /\ LET partner == PartnerRepository_findById(calls[s].data.partnerId)
     IN  calls' = [calls EXCEPT ![s] =
           IF PartnerUnavailable(partner)
           THEN [@ EXCEPT !.pc = "done", !.result = "PartnerUnavailable"]
           ELSE [@ EXCEPT !.pc = "conflictQuery"]]
  /\ UNCHANGED <<bookings, partners, payments, now, refundLog, checkLen, faults, authVars>>

\* const conflict = await BookingRepository.searchBookings({...});
\* if (conflict.length > 0) throw ...
CreateConflictQuery(s) ==
  /\ calls[s].op = "createBooking" /\ calls[s].pc = "conflictQuery"
  /\ LET conflict == SearchConflicts(calls[s].data)
     IN  calls' = [calls EXCEPT ![s] =
           IF Len(conflict) > 0
           THEN [@ EXCEPT !.pc = "done", !.result = "BookingConflict"]
           ELSE [@ EXCEPT !.pc = "insert", !.seen = Len(bookings)]]
  /\ UNCHANGED <<bookings, partners, payments, now, refundLog, checkLen, faults, authVars>>

\* return await BookingRepository.createBooking(bookingData);
\* save() validates the document against the schema and rejects with a
\* ValidationError, storing nothing, when a path is invalid.
CreateInsert(s) ==
  /\ calls[s].op = "createBooking" /\ calls[s].pc = "insert"
  /\ IF SchemaValid(calls[s].data)
     THEN /\ bookings' = Append(bookings, NewBooking(calls[s].data, now))
          /\ checkLen' = Append(checkLen, calls[s].seen)
          /\ calls' = [calls EXCEPT ![s] =
                         [@ EXCEPT !.pc = "done", !.result = "created"]]
     ELSE /\ calls' = [calls EXCEPT ![s] =
                         [@ EXCEPT !.pc = "done", !.result = "ValidationError"]]
          /\ UNCHANGED <<bookings, checkLen>>
  /\ UNCHANGED <<partners, payments, now, refundLog, faults, authVars>>

(***************************************************************************)
(* PaymentRepository.processRefund(paymentId, refundAmount):               *)
(*   if (!isValid(paymentId) || refundAmount <= 0) return null;            *)
(*   findByIdAndUpdate(paymentId, { isRefunded: true, refundAmount })      *)
(***************************************************************************)
ProcessRefund(store, paymentId, refundAmount) ==
  IF refundAmount <= 0 \/ paymentId \notin DOMAIN store THEN store
  ELSE [store EXCEPT ![paymentId] =
          [@ EXCEPT !.isRefunded = TRUE, !.refundAmount = refundAmount]]

(***************************************************************************)
(* PaymentRepository.deletePayment(paymentId):                             *)
(*   Payment.findByIdAndDelete(paymentId)                                  *)
(* Bookings are not looked at.                                             *)
(***************************************************************************)
DeletePayment(paymentId) ==
  /\ paymentId \in DOMAIN payments
  /\ payments' = [p \in DOMAIN payments \ {paymentId} |-> payments[p]]
  /\ UNCHANGED <<bookings, partners, now, calls, refundLog, checkLen, faults, authVars>>

(***************************************************************************)
(* PartnerRepository.logPartnerAction(partnerId, action):                  *)
(*   findByIdAndUpdate(partnerId, { $push: { auditLogs: {action, ts} } })  *)
(***************************************************************************)
LogPartnerAction_AllPartners(store, partnerId, action, t) ==
  [p \in DOMAIN store |->
     [store[p] EXCEPT !.auditLogs = Append(@, [action |-> action, timestamp |-> t])]]

LogPartnerAction(store, partnerId, action, t) ==
  IF partnerId \notin DOMAIN store THEN store
  ELSE [store EXCEPT ![partnerId].auditLogs =
          Append(@, [action |-> action, timestamp |-> t])]

(***************************************************************************)
(* BookingRepository.updateBooking(bookingId, { status }):                 *)
(*   findByIdAndUpdate(bookingId, updateData, { new, runValidators })      *)
(***************************************************************************)
UpdateBookingStatusField(store, bookingId, status) ==
  IF bookingId \notin DOMAIN store THEN store
  ELSE [store EXCEPT ![bookingId].status = status]

(***************************************************************************)
(* BookingRepository.logBookingAction(bookingId, action):                  *)
(*   findByIdAndUpdate(bookingId, { $push: { auditLogs: {action, ts} } })  *)
(***************************************************************************)
LogBookingAction(store, bookingId, action, t) ==
  IF bookingId \notin DOMAIN store THEN store
  ELSE [store EXCEPT ![bookingId].auditLogs =
          Append(@, [action |-> action, timestamp |-> t])]

(***************************************************************************)
(* cancelBooking(bookingId, clientId)                                      *)
(***************************************************************************)
StartCancelBooking(s, bookingId, clientId) ==
  /\ calls[s].pc = "done"
  /\ calls' = [calls EXCEPT ![s] =
       [op |-> "cancelBooking", pc |-> "find",
        data |-> [bookingId |-> bookingId, clientId |-> clientId],
        result |-> "", booking |-> <<>>, snap |-> Snapshot]]
  /\ UNCHANGED <<bookings, partners, payments, now, refundLog, checkLen, faults, authVars>>

\* if (booking.clientId !== clientId) throw new Error('Unauthorized cancellation');
Unauthorized_Never(booking, clientId) == FALSE

Unauthorized(booking, clientId) == booking.clientId # clientId

\* if (booking.paymentId) { ... }
HasPayment_Always(booking) == TRUE

HasPayment(booking) == booking.paymentId # NoPayment

\* const booking = await BookingRepository.findById(bookingId);
\* if (!booking) throw new Error('Booking not found');
CancelFind(s) ==
  /\ calls[s].op = "cancelBooking" /\ calls[s].pc = "find"
  /\ LET booking == BookingRepository_findById(calls[s].data.bookingId)
     IN  calls' = [calls EXCEPT ![s] =
           IF booking = <<>>
           THEN [@ EXCEPT !.pc = "done", !.result = "NotFound"]
           ELSE IF Unauthorized(booking[1], calls[s].data.clientId)
           THEN [@ EXCEPT !.pc = "done", !.result = "Unauthorized"]
           ELSE [@ EXCEPT !.booking = booking,
                          !.pc = IF HasPayment(booking[1]) THEN "refund"
                                 ELSE "logPartner"]]
  /\ UNCHANGED <<bookings, partners, payments, now, refundLog, checkLen, faults, authVars>>

\* await PaymentRepository.processRefund(booking.paymentId, booking.amount);
CancelRefund(s) ==
  /\ calls[s].op = "cancelBooking" /\ calls[s].pc = "refund"
  /\ LET booking == calls[s].booking[1]
     IN  /\ payments' = ProcessRefund(payments, booking.paymentId, booking.amount)
         /\ refundLog' = Append(refundLog,
              [paymentId |-> booking.paymentId, refundAmount |-> booking.amount])
  /\ calls' = [calls EXCEPT ![s].pc = "logPartner"]
  /\ UNCHANGED <<bookings, partners, now, checkLen, faults, authVars>>

\* await PartnerRepository.logPartnerAction(booking.partnerId, 'Booking Cancelled');
CancelLogPartner(s) ==
  /\ calls[s].op = "cancelBooking" /\ calls[s].pc = "logPartner"
  /\ partners' = LogPartnerAction(partners, calls[s].booking[1].partnerId,
                                  "Booking Cancelled", now)
  /\ calls' = [calls EXCEPT ![s].pc = "update"]
  /\ UNCHANGED <<bookings, payments, now, refundLog, checkLen, faults, authVars>>

\* return await BookingRepository.updateBooking(bookingId, { status: 'cancelled' });
CancelUpdate(s) ==
  /\ calls[s].op = "cancelBooking" /\ calls[s].pc = "update"
  /\ bookings' = UpdateBookingStatusField(bookings, calls[s].data.bookingId, "cancelled")
  /\ calls' = [calls EXCEPT ![s] = [@ EXCEPT !.pc = "done", !.result = "cancelled"]]
  /\ UNCHANGED <<partners, payments, now, refundLog, checkLen, faults, authVars>>

\* One of the three awaited store calls rejects.  cancelBooking has no
\* try/catch and no transaction: the exception leaves the function and what
\* the earlier awaits wrote stays written.
FailedCancel(call, at) ==
  [op |-> call.op, pc |-> "done", data |-> call.data, result |-> "Error",
   booking |-> call.booking, snap |-> call.snap, failedAt |-> at]

CancelStepFails_Compensating(s) ==
  /\ calls[s].op = "cancelBooking"
  /\ calls[s].pc \in {"refund", "logPartner", "update"}
  /\ faults < MaxFaults
  /\ faults' = faults + 1
  /\ calls' = [calls EXCEPT ![s] = FailedCancel(calls[s], calls[s].pc)]
  /\ payments' = calls[s].snap.payments
  /\ partners' = calls[s].snap.partners
  /\ UNCHANGED <<bookings, now, refundLog, checkLen, authVars>>

CancelStepFails(s) ==
  /\ calls[s].op = "cancelBooking"
  /\ calls[s].pc \in {"refund", "logPartner", "update"}
  /\ faults < MaxFaults
  /\ faults' = faults + 1
  /\ calls' = [calls EXCEPT ![s] = FailedCancel(calls[s], calls[s].pc)]
  /\ UNCHANGED <<bookings, partners, payments, now, refundLog, checkLen, authVars>>

(***************************************************************************)
(* BookingRepository.updateBookingStatus(bookingId, status):               *)
(*   findByIdAndUpdate(bookingId, { status }, { new: true })               *)
(* No runValidators: whatever string is passed is written.  A bookingId    *)
(* that resolves to nothing writes nothing and yields null.                *)
(***************************************************************************)
SetStatus(store, bookingId, status) ==
  IF bookingId \notin DOMAIN store THEN store
  ELSE [store EXCEPT ![bookingId].status = status]

\* `Status updated to ${status}`
StatusAction(status) == <<"Status updated to", status>>

(***************************************************************************)
(* updateBookingStatus(bookingId, status)                                  *)
(***************************************************************************)
StartUpdateBookingStatus(s, bookingId, status) ==
  /\ calls[s].pc = "done"
  /\ calls' = [calls EXCEPT ![s] =
       [op |-> "updateBookingStatus", pc |-> "update",
        data |-> [bookingId |-> bookingId, status |-> status],
        result |-> "", updatedBooking |-> <<>>, snap |-> Snapshot]]
  /\ UNCHANGED <<bookings, partners, payments, now, refundLog, checkLen, faults, authVars>>

\* const updatedBooking = await BookingRepository.updateBookingStatus(bookingId, status);
StatusUpdate(s) ==
  /\ calls[s].op = "updateBookingStatus" /\ calls[s].pc = "update"
  /\ bookings' = SetStatus(bookings, calls[s].data.bookingId, calls[s].data.status)
  /\ calls' = [calls EXCEPT ![s] =
       [@ EXCEPT !.pc = "log",
                 !.updatedBooking =
                    IF calls[s].data.bookingId \in DOMAIN bookings
                    THEN <<bookings'[calls[s].data.bookingId]>> ELSE <<>>]]
  /\ UNCHANGED <<partners, payments, now, refundLog, checkLen, faults, authVars>>

\* return updatedBooking;  -- the document, or null; nothing is thrown.
StatusResult_Throws(updatedBooking) ==
  IF updatedBooking = <<>> THEN "NotFound" ELSE "updated"

StatusResult(updatedBooking) ==
  IF updatedBooking = <<>> THEN "null" ELSE "updated"

\* await logBookingAction(bookingId, `Status updated to ${status}`);
StatusLog_OnlyOnChange(s) ==
  /\ calls[s].op = "updateBookingStatus" /\ calls[s].pc = "log"
  /\ bookings' =
       IF /\ calls[s].data.bookingId \in DOMAIN calls[s].snap.bookings
          /\ calls[s].snap.bookings[calls[s].data.bookingId].status
               = calls[s].data.status
       THEN bookings
       ELSE LogBookingAction(bookings, calls[s].data.bookingId,
                             StatusAction(calls[s].data.status), now)
  /\ calls' = [calls EXCEPT ![s] =
       [@ EXCEPT !.pc = "done", !.result = StatusResult(calls[s].updatedBooking)]]
  /\ UNCHANGED <<partners, payments, now, refundLog, checkLen, faults, authVars>>

StatusLog(s) ==
  /\ calls[s].op = "updateBookingStatus" /\ calls[s].pc = "log"
  /\ bookings' = LogBookingAction(bookings, calls[s].data.bookingId,
                                  StatusAction(calls[s].data.status), now)
  /\ calls' = [calls EXCEPT ![s] =
       [@ EXCEPT !.pc = "done", !.result = StatusResult(calls[s].updatedBooking)]]
  /\ UNCHANGED <<partners, payments, now, refundLog, checkLen, faults, authVars>>

(***************************************************************************)
(* BookingRepository.updateBooking(bookingId, updateData):                 *)
(*   findByIdAndUpdate(bookingId, updateData, { new, runValidators })      *)
(* updateData is a record of the paths to set; the update validators       *)
(* reject the whole update when a value is invalid for its path.           *)
(***************************************************************************)
UpdateFields_Remove(store, bookingId, updateData) ==
  IF bookingId \notin DOMAIN store THEN store
  ELSE SubSeq(store, 1, bookingId - 1) \o SubSeq(store, bookingId + 1, Len(store))

UpdateFields(store, bookingId, updateData) ==
  IF bookingId \notin DOMAIN store THEN store
  ELSE [store EXCEPT ![bookingId] =
          [f \in DOMAIN @ |-> IF f \in DOMAIN updateData THEN updateData[f]
                              ELSE @[f]]]

(***************************************************************************)
(* updateBooking(bookingId, updateData)                                    *)
(***************************************************************************)
StartUpdateBooking(s, bookingId, updateData) ==
  /\ calls[s].pc = "done"
  /\ calls' = [calls EXCEPT ![s] =
       [op |-> "updateBooking", pc |-> "find",
        data |-> [bookingId |-> bookingId, updateData |-> updateData],
        result |-> "", snap |-> Snapshot]]
  /\ UNCHANGED <<bookings, partners, payments, now, refundLog, checkLen, faults, authVars>>

\* const booking = await BookingRepository.findById(bookingId);
\* if (!booking) throw new Error('Booking not found');
UpdateFind(s) ==
  /\ calls[s].op = "updateBooking" /\ calls[s].pc = "find"
  /\ calls' = [calls EXCEPT ![s] =
       IF BookingRepository_findById(calls[s].data.bookingId) = <<>>
       THEN [@ EXCEPT !.pc = "done", !.result = "NotFound"]
       ELSE [@ EXCEPT !.pc = "update"]]
  /\ UNCHANGED <<bookings, partners, payments, now, refundLog, checkLen, faults, authVars>>

\* return await BookingRepository.updateBooking(bookingId, updateData);
UpdateApply(s) ==
  /\ calls[s].op = "updateBooking" /\ calls[s].pc = "update"
  /\ IF SchemaValid(calls[s].data.updateData)
     THEN /\ bookings' = UpdateFields(bookings, calls[s].data.bookingId,
                                      calls[s].data.updateData)
          /\ calls' = [calls EXCEPT ![s] =
                         [@ EXCEPT !.pc = "done", !.result = "updated"]]
     ELSE /\ calls' = [calls EXCEPT ![s] =
                         [@ EXCEPT !.pc = "done", !.result = "ValidationError"]]
          /\ UNCHANGED bookings
  /\ UNCHANGED <<partners, payments, now, refundLog, checkLen, faults, authVars>>

(***************************************************************************)
(* autoCancelExpiredBookings()                                             *)
(***************************************************************************)
ExpiredAction == "Booking auto-cancelled due to expiration"

\* The filter object is built, with Date.now(), when the function is entered.
StartSweep(s) ==
  /\ calls[s].pc = "done"
  /\ calls' = [calls EXCEPT ![s] =
       [op |-> "autoCancel", pc |-> "query", data |-> [t |-> now],
        result |-> "", todo |-> <<>>, page |-> <<>>, matched |-> {},
        visits |-> <<>>, failedOn |-> 0, snap |-> Snapshot]]
  /\ UNCHANGED <<bookings, partners, payments, now, refundLog, checkLen, faults, authVars>>

\* const expiredBookings = await BookingRepository.searchBookings({...});
\* `matched` and `snap` record what the store held when the query ran.
SweepQuery(s) ==
  /\ calls[s].op = "autoCancel" /\ calls[s].pc = "query"
  /\ LET expiredBookings == SearchExpired(calls[s].data.t)
     IN  calls' = [calls EXCEPT ![s] =
           [@ EXCEPT !.todo = expiredBookings,
                     !.page = expiredBookings,
                     !.matched = {i \in DOMAIN bookings :
                                    /\ bookings[i].status = "pending"
                                    /\ calls[s].data.t - bookings[i].createdAt > ExpiryTicks},
                     !.snap = Snapshot,
                     !.pc = IF expiredBookings = <<>> THEN "done" ELSE "update",
                     !.result = IF expiredBookings = <<>> THEN "void" ELSE ""]]
  /\ UNCHANGED <<bookings, partners, payments, now, refundLog, checkLen, faults, authVars>>

\* await BookingRepository.updateBooking(booking._id, { status: 'cancelled' });
SweepUpdate(s) ==
  /\ calls[s].op = "autoCancel" /\ calls[s].pc = "update"
  /\ bookings' = UpdateBookingStatusField(bookings, Head(calls[s].todo), "cancelled")
  /\ calls' = [calls EXCEPT ![s] =
       [@ EXCEPT !.pc = "log",
                 !.visits = Append(@, <<Head(calls[s].todo), "update">>)]]
  /\ UNCHANGED <<partners, payments, now, refundLog, checkLen, faults, authVars>>

\* await logBookingAction(booking._id, 'Booking auto-cancelled due to expiration');
\* then the next booking of the for...of loop, or the end of the function.
SweepLog(s) ==
  /\ calls[s].op = "autoCancel" /\ calls[s].pc = "log"
  /\ bookings' = LogBookingAction(bookings, Head(calls[s].todo), ExpiredAction, now)
  /\ calls' = [calls EXCEPT ![s] =
       [@ EXCEPT !.todo = Tail(@),
                 !.visits = Append(@, <<Head(calls[s].todo), "log">>),
                 !.pc = IF Tail(calls[s].todo) = <<>> THEN "done" ELSE "update",
                 !.result = IF Tail(calls[s].todo) = <<>> THEN "void" ELSE ""]]
  /\ UNCHANGED <<partners, payments, now, refundLog, checkLen, faults, authVars>>

\* The awaited store call rejects: nothing in the loop catches it, the
\* exception leaves the for...of loop and the function.
SweepStepFails(s) ==
  /\ calls[s].op = "autoCancel" /\ calls[s].pc \in {"update", "log"}
  /\ faults < MaxFaults
  /\ faults' = faults + 1
  /\ calls' = [calls EXCEPT ![s] =
       [@ EXCEPT !.pc = "done", !.result = "Error",
                 !.failedOn = Head(calls[s].todo)]]
  /\ UNCHANGED <<bookings, partners, payments, now, refundLog, checkLen, authVars>>

Tick ==
  /\ now < MaxNow
  /\ now' = now + 1
  /\ UNCHANGED <<bookings, partners, payments, calls, refundLog, checkLen, faults, authVars>>


(***************************************************************************)
(* UserRepository.findById and UserRepository.updateUser(userId, data):    *)
(*   User.findByIdAndUpdate(userId, updateData, { new, runValidators })    *)
(* A userId that resolves to nothing writes nothing and yields null.       *)
(***************************************************************************)
UserRepository_findById(userId) ==
  IF userId \in DOMAIN users THEN <<users[userId]>> ELSE <<>>

UpdateUser(store, userId, updateData) ==
  IF userId \notin DOMAIN store THEN store
  ELSE [store EXCEPT ![userId] =
          [f \in DOMAIN @ |-> IF f \in DOMAIN updateData THEN updateData[f]
                              ELSE @[f]]]

AuthSnapshot ==
  [users |-> users, admins |-> admins, blacklist |-> blacklist,
   failedCalls |-> failedCalls]

(***************************************************************************)
(* handleFailedLogin(userId)                                               *)
(***************************************************************************)
StartHandleFailedLogin(s, userId) ==
  /\ calls[s].pc = "done"
  /\ calls' = [calls EXCEPT ![s] =
       [op |-> "handleFailedLogin", pc |-> "find", data |-> [userId |-> userId],
        result |-> "", user |-> <<>>, snap |-> AuthSnapshot]]
  /\ UNCHANGED <<bookingVars, now, authVars>>

\* const user = await UserRepository.findById(userId);
\* if (!user) return null;
FailedLoginFind(s) ==
  /\ calls[s].op = "handleFailedLogin" /\ calls[s].pc = "find"
  /\ LET user == UserRepository_findById(calls[s].data.userId)
     IN  calls' = [calls EXCEPT ![s] =
           IF user = <<>> THEN [@ EXCEPT !.pc = "done", !.result = "null"]
           ELSE [@ EXCEPT !.user = user, !.pc = "update"]]
  /\ UNCHANGED <<bookingVars, now, authVars>>

\* const accountLocked = failedAttempts >= 5;
AccountLocked_AfterFive(failedAttempts) == failedAttempts > LockThreshold

AccountLocked(failedAttempts) == failedAttempts >= LockThreshold

\* const failedAttempts = (user.failedLoginAttempts || 0) + 1;
\* return await UserRepository.updateUser(userId, { failedLoginAttempts, accountLocked });
\* The count written comes from the document read at the earlier await.
FailedLoginUpdate(s) ==
  /\ calls[s].op = "handleFailedLogin" /\ calls[s].pc = "update"
  /\ LET userId         == calls[s].data.userId
         failedAttempts == calls[s].user[1].failedLoginAttempts + 1
     IN  /\ users' = UpdateUser(users, userId,
                        [failedLoginAttempts |-> failedAttempts,
                         accountLocked |-> AccountLocked(failedAttempts)])
         /\ failedCalls' = [failedCalls EXCEPT ![userId] = @ + 1]
  /\ calls' = [calls EXCEPT ![s] = [@ EXCEPT !.pc = "done", !.result = "updated"]]
  /\ UNCHANGED <<bookingVars, now, admins, blacklist>>

(***************************************************************************)
(* resetFailedLoginAttempts(userId): one awaited updateUser.               *)
(***************************************************************************)
ResetFailedLoginAttempts(s, userId) ==
  /\ calls[s].pc = "done"
  /\ users' = UpdateUser(users, userId,
                 [failedLoginAttempts |-> 0, accountLocked |-> FALSE])
  /\ failedCalls' = [u \in DOMAIN failedCalls |->
                       IF u = userId THEN 0 ELSE failedCalls[u]]
  /\ calls' = [calls EXCEPT ![s] =
       [op |-> "resetFailedLoginAttempts", pc |-> "done",
        data |-> [userId |-> userId],
        result |-> IF userId \in DOMAIN users THEN "updated" ELSE "null",
        snap |-> AuthSnapshot]]
  /\ UNCHANGED <<bookingVars, now, admins, blacklist>>

(***************************************************************************)
(* AuthService: authenticateUser, verifyToken, logoutUser                  *)
(***************************************************************************)
\* expiresIn: '7d', in ticks
TokenLifeTicks == 672

\* jwt.sign({ id, role }, config.jwtSecret, { expiresIn: '7d' }): the token
\* is determined by its payload, its issue time and the key that signed it.
GenerateToken(userId) == [id |-> userId, iat |-> now, sig |-> "jwtSecret"]

\* jwt.verify(token, config.jwtSecret) throws on a foreign signature and
\* on an expired token.
JwtVerify(token) ==
  token.sig = "jwtSecret" /\ now < token.iat + TokenLifeTicks

VerifyToken_IgnoresBlacklist(token) ==
  IF JwtVerify(token) THEN "decoded" ELSE "null"

\* verifyToken(token): the catch turns every throw into null.
VerifyToken(token) ==
  IF token \in blacklist THEN "null"
  ELSE IF JwtVerify(token) THEN "decoded" ELSE "null"

\* verifyToken has no await: the whole call is one step.
VerifyTokenCall(s, token) ==
  /\ calls[s].pc = "done"
  /\ calls' = [calls EXCEPT ![s] =
       [op |-> "verifyToken", pc |-> "done", data |-> [token |-> token],
        result |-> VerifyToken(token), snap |-> AuthSnapshot]]
  /\ UNCHANGED <<bookingVars, now, authVars>>

\* authenticateUser(email, password): findByEmail, comparePassword on the
\* document read, generateToken.  It writes nothing to the store.
AuthenticateUser(s, userId, password) ==
  /\ calls[s].pc = "done"
  /\ calls' = [calls EXCEPT ![s] =
       [op |-> "authenticateUser", pc |-> "done",
        data |-> [userId |-> userId, password |-> password],
        result |-> IF userId \in DOMAIN users
                      /\ users[userId].password = HashPassword(password)
                   THEN <<GenerateToken(userId)>> ELSE <<>>,
        snap |-> AuthSnapshot]]
  /\ UNCHANGED <<bookingVars, now, authVars>>

\* logoutUser(token, userId), up to its await:
\*   TokenBlacklist.add(token);
LogoutStart(s, token, userId) ==
  /\ calls[s].pc = "done"
  /\ blacklist' = blacklist \cup {token}
  /\ calls' = [calls EXCEPT ![s] =
       [op |-> "logoutUser", pc |-> "log",
        data |-> [token |-> token, userId |-> userId],
        result |-> "", snap |-> AuthSnapshot]]
  /\ UNCHANGED <<bookingVars, now, users, admins, failedCalls>>

\* await UserRepository.logUserAction(userId, 'logout');
LogoutLog(s) ==
  /\ calls[s].op = "logoutUser" /\ calls[s].pc = "log"
  /\ LET userId == calls[s].data.userId
     IN  users' = IF userId \in DOMAIN users
                  THEN [users EXCEPT ![userId].auditLogs =
                          Append(@, "logout")]
                  ELSE users
  /\ calls' = [calls EXCEPT ![s] = [@ EXCEPT !.pc = "done"]]
  /\ UNCHANGED <<bookingVars, now, admins, blacklist, failedCalls>>

(***************************************************************************)
(* AuthService: generatePasswordResetToken, resetPassword                  *)
(***************************************************************************)
\* Date.now() + 3600000, in ticks
ResetLifeTicks == 4

\* module.exports of the user repository
UserRepositoryExports ==
  {"findById", "findByEmail", "createUser", "updateUser", "deleteUser",
   "searchUsers", "updateLastLogin", "countUsers", "softDeleteUser",
   "bulkUpdateStatus", "findByRole", "logUserAction"}

\* generatePasswordResetToken(userId):
\*   resetToken = crypto.randomBytes(32).toString('hex');
\*   await UserRepository.updateUser(userId, { resetToken, resetTokenExpires });
\* The random token is one no user holds.
GeneratePasswordResetToken(s, userId, resetToken) ==
  /\ calls[s].pc = "done"
  /\ \A u \in DOMAIN users : users[u].resetToken # resetToken
  /\ users' = UpdateUser(users, userId,
                 [resetToken |-> resetToken,
                  resetTokenExpires |-> now + ResetLifeTicks])
  /\ calls' = [calls EXCEPT ![s] =
       [op |-> "generatePasswordResetToken", pc |-> "done",
        data |-> [userId |-> userId], result |-> resetToken,
        at |-> now, snap |-> AuthSnapshot]]
  /\ UNCHANGED <<bookingVars, now, admins, blacklist, failedCalls>>

\* resetPassword(resetToken, newPassword):
\*   const user = await UserRepository.findByResetToken(resetToken);
\* The repository exports no findByResetToken, so the call expression throws
\* a TypeError and the function's promise rejects with it; the expiry test
\* and the updateUser after it are never reached.
ResetPassword(s, resetToken, newPassword) ==
  /\ calls[s].pc = "done"
  /\ "findByResetToken" \notin UserRepositoryExports
  /\ calls' = [calls EXCEPT ![s] =
       [op |-> "resetPassword", pc |-> "done",
        data |-> [resetToken |-> resetToken, newPassword |-> newPassword],
        result |-> "TypeError", at |-> now, snap |-> AuthSnapshot]]
  /\ UNCHANGED <<bookingVars, now, authVars>>

(***************************************************************************)
(* updateAdminRole(adminId, role, requestingAdminRole)                     *)
(***************************************************************************)
\* const validRoles = ['superadmin', 'admin', 'moderator'];
ValidRoles == {"superadmin", "admin", "moderator"}

\* Both checks run before the first await, when the function is called:
\*   if (!validRoles.includes(role)) throw new Error('Invalid role assignment');
\*   if (requestingAdminRole !== 'superadmin' && role === 'superadmin') throw ...
StartUpdateAdminRole(s, adminId, role, requestingAdminRole) ==
  /\ calls[s].pc = "done"
  /\ calls' = [calls EXCEPT ![s] =
       [op |-> "updateAdminRole",
        pc |-> IF role \in ValidRoles
                  /\ ~(requestingAdminRole # "superadmin" /\ role = "superadmin")
               THEN "update" ELSE "done",
        data |-> [adminId |-> adminId, role |-> role,
                  requestingAdminRole |-> requestingAdminRole],
        result |-> IF role \notin ValidRoles THEN "InvalidRole"
                   ELSE IF requestingAdminRole # "superadmin" /\ role = "superadmin"
                   THEN "OnlySuperadmins" ELSE "",
        snap |-> AuthSnapshot]]
  /\ UNCHANGED <<bookingVars, now, authVars>>

\* The update validator of adminSchema.role (runValidators: true).
AdminRoleValid_Any(role) == TRUE

AdminRoleValid(role) == role \in AdminRoles

\* return await AdminRepository.updateAdmin(adminId, { role });
\*   Admin.findByIdAndUpdate(adminId, updateData, { new, runValidators })
AdminRoleUpdate(s) ==
  /\ calls[s].op = "updateAdminRole" /\ calls[s].pc = "update"
  /\ LET adminId == calls[s].data.adminId
         role    == calls[s].data.role
     IN  IF ~AdminRoleValid(role)
         THEN /\ calls' = [calls EXCEPT ![s] =
                   [@ EXCEPT !.pc = "done", !.result = "ValidationError"]]
              /\ UNCHANGED admins
         ELSE IF adminId \notin DOMAIN admins
         THEN /\ calls' = [calls EXCEPT ![s] =
                   [@ EXCEPT !.pc = "done", !.result = "null"]]
              /\ UNCHANGED admins
         ELSE /\ calls' = [calls EXCEPT ![s] =
                   [@ EXCEPT !.pc = "done", !.result = "updated"]]
              /\ admins' = [admins EXCEPT ![adminId].role = role]
  /\ UNCHANGED <<bookingVars, now, users, blacklist, failedCalls>>

(***************************************************************************)
(* Spec: requests to createBooking served one at a time.                   *)
(***************************************************************************)
Windows ==
  {<<0, 1>>, <<0, 2>>, <<0, 3>>, <<1, 2>>, <<1, 3>>, <<2, 3>>, <<1, 1>>}

PartnerRefs == {"p1", "p2", "p3", "p4", "p5", "p0"}

BookingData(p, w, st) ==
  [partnerId |-> p, clientId |-> "c1", startTime |-> w[1], endTime |-> w[2],
   status |-> st, amount |-> 1, paymentId |-> NoPayment]

CreateInputs ==
  {BookingData(p, w, st) : p \in PartnerRefs, w \in Windows,
                           st \in {"confirmed", "pending"}}

Init ==
  /\ bookings = <<>>
  /\ partners = PartnerTable
  /\ payments = PaymentTable
  /\ now = 0
  /\ calls = [s \in Slots |-> Idle]
  /\ refundLog = <<>>
  /\ checkLen = <<>>
  /\ faults = 0
  /\ AuthInit

Next ==
  \/ \E bookingData \in CreateInputs :
        /\ NoCallRunning
        /\ Len(bookings) < MaxBookings
        /\ StartCreateBooking(1, bookingData)
  \/ CreateFindPartner(1)
  \/ CreateConflictQuery(1)
  \/ CreateInsert(1)

Spec == Init /\ [][Next]_vars

(***************************************************************************)
(* Properties of createBooking, read off a call that has returned: `snap`  *)
(* holds the collections as they stood when the call started.              *)
(***************************************************************************)
Returned(s, op) == calls[s].op = op /\ calls[s].pc = "done"

WellFormed(b) == b.startTime < b.endTime

\* Half-open overlap of a stored booking with a requested window.
Overlaps(a, bookingData) ==
  a.startTime < bookingData.endTime /\ a.endTime > bookingData.startTime

ActiveIn(snap, partnerId) ==
  partnerId \in DOMAIN snap.partners /\ snap.partners[partnerId].status = "active"

\* Confirmed bookings of the request's partner that overlap the requested window.
OverlappingConfirmed(snap, bookingData) ==
  {i \in DOMAIN snap.bookings :
     /\ snap.bookings[i].partnerId = bookingData.partnerId
     /\ snap.bookings[i].status = "confirmed"
     /\ Overlaps(snap.bookings[i], bookingData)}

\* C1: on an active partner, a request whose window overlaps (half-open) a
\* stored confirmed booking of that partner fails with BookingConflict and
\* stores nothing.  Stated here for well-formed windows only (start < end on
\* both sides), which the claim includes.
C1_OverlapRejected ==
  \A s \in Slots :
    ( /\ Returned(s, "createBooking")
      /\ ActiveIn(calls[s].snap, calls[s].data.partnerId)
      /\ WellFormed(calls[s].data)
      /\ \E i \in OverlappingConfirmed(calls[s].snap, calls[s].data) :
            WellFormed(calls[s].snap.bookings[i]) )
    => /\ calls[s].result = "BookingConflict"
       /\ bookings = calls[s].snap.bookings

\* C2: on an active partner, a request whose window overlaps no stored
\* confirmed booking of that partner succeeds and adds exactly one booking.
C2_NonOverlapAccepted ==
  \A s \in Slots :
    ( /\ Returned(s, "createBooking")
      /\ ActiveIn(calls[s].snap, calls[s].data.partnerId)
      /\ OverlappingConfirmed(calls[s].snap, calls[s].data) = {} )
    => /\ calls[s].result = "created"
       /\ Len(bookings) = Len(calls[s].snap.bookings) + 1
       /\ SubSeq(bookings, 1, Len(calls[s].snap.bookings)) = calls[s].snap.bookings

\* C3: a request naming a partner that does not exist or is not 'active'
\* fails with PartnerUnavailable and changes no booking, payment or partner.
C3_PartnerUnavailable ==
  \A s \in Slots :
    ( /\ Returned(s, "createBooking")
      /\ ~ActiveIn(calls[s].snap, calls[s].data.partnerId) )
    => /\ calls[s].result = "PartnerUnavailable"
       /\ bookings = calls[s].snap.bookings
       /\ payments = calls[s].snap.payments
       /\ partners = calls[s].snap.partners

\* A request on a suspended partner has returned while bookings are stored.
C3_Witness ==
  \E s \in Slots :
    /\ Returned(s, "createBooking")
    /\ calls[s].data.partnerId = "p4"
    /\ calls[s].result = "PartnerUnavailable"
    /\ Len(bookings) > 0

(***************************************************************************)
(* SpecCancel: bookings of two clients on two partners, with and without   *)
(* a payment reference, created and cancelled one request at a time.       *)
(***************************************************************************)
Clients == {"c1", "c2"}

CancelSeedInputs ==
  {[partnerId |-> p, clientId |-> c, startTime |-> 0, endTime |-> 1,
    status |-> "pending", amount |-> pa[2], paymentId |-> pa[1]] :
     p \in {"p1", "p2"}, c \in Clients,
     pa \in {<<NoPayment, 2>>, <<"pay1", 2>>, <<"pay1", 0>>, <<"pay0", 2>>}}

RECURSIVE CancelCount(_)
CancelCount(ps) ==
  IF ps = {} THEN 0
  ELSE LET p == CHOOSE q \in ps : TRUE
       IN  Len(partners[p].auditLogs) + CancelCount(ps \ {p})

NextCancel ==
  \/ \E bookingData \in CancelSeedInputs :
        /\ NoCallRunning
        /\ Len(bookings) < MaxCancelBookings
        /\ StartCreateBooking(1, bookingData)
  \/ CreateFindPartner(1)
  \/ CreateConflictQuery(1)
  \/ CreateInsert(1)
  \/ \E bookingId \in 1..(MaxCancelBookings + 1), clientId \in Clients :
        /\ NoCallRunning
        /\ CancelCount(DOMAIN partners) < MaxCancels
        /\ StartCancelBooking(1, bookingId, clientId)
  \/ CancelFind(1)
  \/ CancelRefund(1)
  \/ CancelLogPartner(1)
  \/ CancelUpdate(1)

SpecCancel == Init /\ [][NextCancel]_vars

(***************************************************************************)
(* Properties of cancelBooking.                                            *)
(***************************************************************************)
SameCollections(snap) ==
  /\ bookings = snap.bookings
  /\ payments = snap.payments
  /\ partners = snap.partners
  /\ refundLog = snap.refundLog

\* C4: cancelBooking fails with NotFound on a booking that does not exist and
\* with Unauthorized when the booking's client differs from clientId; either
\* way no booking status, payment or partner audit log changes and no refund
\* is issued.
C4_CancelRejected ==
  \A s \in Slots :
    Returned(s, "cancelBooking") =>
      LET snap == calls[s].snap
          id   == calls[s].data.bookingId
      IN  /\ id \notin DOMAIN snap.bookings
             => calls[s].result = "NotFound" /\ SameCollections(snap)
          /\ (id \in DOMAIN snap.bookings
              /\ snap.bookings[id].clientId # calls[s].data.clientId)
             => calls[s].result = "Unauthorized" /\ SameCollections(snap)

\* Another client's cancellation of a booking with a payment has been refused.
C4_Witness ==
  \E s \in Slots :
    /\ Returned(s, "cancelBooking")
    /\ calls[s].result = "Unauthorized"
    /\ calls[s].data.bookingId \in DOMAIN bookings
    /\ bookings[calls[s].data.bookingId].paymentId = "pay1"
    /\ bookings[calls[s].data.bookingId].amount > 0

\* A cancellation of a booking id that resolves to nothing has been refused.
C4_WitnessNotFound ==
  \E s \in Slots :
    /\ Returned(s, "cancelBooking")
    /\ calls[s].result = "NotFound"
    /\ Len(bookings) > 0

\* C5: a cancelBooking by the owning client makes exactly one refund request,
\* on the booking's payment reference and for the booking's full amount, when
\* the booking has a payment reference, and none when it has not; the request
\* marks an existing payment refunded with that amount when the amount is
\* positive; either way the booking ends 'cancelled'.
C5_CancelRefundsOnce ==
  \A s \in Slots :
    ( /\ Returned(s, "cancelBooking")
      /\ calls[s].data.bookingId \in DOMAIN calls[s].snap.bookings
      /\ calls[s].snap.bookings[calls[s].data.bookingId].clientId
           = calls[s].data.clientId )
    => LET snap == calls[s].snap
           id   == calls[s].data.bookingId
           b    == snap.bookings[id]
       IN  /\ calls[s].result = "cancelled"
           /\ bookings[id].status = "cancelled"
           /\ IF b.paymentId # NoPayment
              THEN /\ refundLog = Append(snap.refundLog,
                         [paymentId |-> b.paymentId, refundAmount |-> b.amount])
                   /\ (b.paymentId \in DOMAIN payments /\ b.amount > 0)
                        => /\ payments[b.paymentId].isRefunded
                           /\ payments[b.paymentId].refundAmount = b.amount
              ELSE /\ refundLog = snap.refundLog
                   /\ payments = snap.payments

\* The owner has cancelled a booking paid through an existing payment.
C5_Witness ==
  \E s \in Slots :
    /\ Returned(s, "cancelBooking")
    /\ calls[s].result = "cancelled"
    /\ calls[s].snap.bookings[calls[s].data.bookingId].paymentId = "pay1"
    /\ calls[s].snap.bookings[calls[s].data.bookingId].amount = 2
    /\ payments["pay1"].isRefunded

\* The owner has cancelled a booking that has no payment reference.
C5_WitnessNoPayment ==
  \E s \in Slots :
    /\ Returned(s, "cancelBooking")
    /\ calls[s].result = "cancelled"
    /\ calls[s].snap.bookings[calls[s].data.bookingId].paymentId = NoPayment

(***************************************************************************)
(* SpecSweep: the expiration sweep, one invocation at a time, over the     *)
(* store that n earlier createBooking requests left: `young` of them       *)
(* created at tick 2 and the others at tick 0, all pending except, when    *)
(* `conf` is set, the oldest, which is confirmed.                          *)
(***************************************************************************)
SeedData(st) ==
  [partnerId |-> "p1", clientId |-> "c1", startTime |-> 0, endTime |-> 1,
   status |-> st, amount |-> 1, paymentId |-> NoPayment]

SeedStore(n, young, conf) ==
  [i \in 1..n |->
     NewBooking(SeedData(IF conf /\ i = 1 THEN "confirmed" ELSE NoStatus),
                IF i > n - young THEN 2 ELSE 0)]

InitSweep ==
  /\ \E n \in 0..MaxSeed, young \in 0..1, conf \in BOOLEAN :
        /\ young <= n
        /\ bookings = SeedStore(n, young, conf)
        /\ checkLen = [i \in 1..n |-> i - 1]
  /\ partners = PartnerTable
  /\ payments = PaymentTable
  /\ now = 2
  /\ calls = [s \in Slots |-> Idle]
  /\ refundLog = <<>>
  /\ faults = 0
  /\ AuthInit

NextSweep ==
  \/ NoCallRunning /\ StartSweep(1)
  \/ SweepQuery(1)
  \/ SweepUpdate(1)
  \/ SweepLog(1)
  \/ SweepStepFails(1)
  \/ NoCallRunning /\ Tick

SpecSweep == InitSweep /\ [][NextSweep]_vars

(***************************************************************************)
(* Properties of autoCancelExpiredBookings.  In a sweep's record, `snap`   *)
(* is the store at query time, `matched` the bookings that were pending    *)
(* and older than 30 minutes then, `page` the query's result and `visits`  *)
(* the store writes the sweep made.                                        *)
(***************************************************************************)
Count(seq, x) == Cardinality({k \in DOMAIN seq : seq[k] = x})

GainedOneExpiredEntry(before, after) ==
  /\ Len(after.auditLogs) = Len(before.auditLogs) + 1
  /\ SubSeq(after.auditLogs, 1, Len(before.auditLogs)) = before.auditLogs
  /\ after.auditLogs[Len(after.auditLogs)].action = ExpiredAction

\* C6: after a complete sweep, every booking that was pending and older than
\* 30 minutes at query time is 'cancelled' and has gained exactly one
\* 'Booking auto-cancelled due to expiration' audit entry.
C6_SweepCancelsAllExpired ==
  \A s \in Slots :
    (Returned(s, "autoCancel") /\ calls[s].result = "void") =>
      \A i \in calls[s].matched :
        /\ bookings[i].status = "cancelled"
        /\ GainedOneExpiredEntry(calls[s].snap.bookings[i], bookings[i])

\* C7: from its query on, a sweep leaves unchanged every booking that at
\* query time was pending and less than 30 minutes old, and every booking
\* that at query time was not pending, whatever its age.
C7_SweepLeavesOthers ==
  \A s \in Slots :
    (calls[s].op = "autoCancel" /\ calls[s].pc # "query") =>
      \A i \in DOMAIN calls[s].snap.bookings :
        LET b == calls[s].snap.bookings[i]
        IN  ( \/ b.status # "pending"
              \/ calls[s].data.t - b.createdAt < ExpiryTicks )
            => bookings[i] = b

\* A complete sweep has cancelled a booking while the store also held a
\* confirmed booking older than 30 minutes and a pending one younger.
C7_Witness ==
  \E s \in Slots :
    /\ Returned(s, "autoCancel") /\ calls[s].result = "void"
    /\ calls[s].visits # <<>>
    /\ \E i \in DOMAIN bookings :
         /\ bookings[i].status = "confirmed"
         /\ calls[s].data.t - bookings[i].createdAt > ExpiryTicks
    /\ \E i \in DOMAIN bookings :
         /\ bookings[i].status = "pending"
         /\ calls[s].data.t - bookings[i].createdAt < ExpiryTicks

\* C8: in a complete sweep every booking that matched at query time is
\* visited exactly once: one status update and one audit append.
C8_SweepVisitsEachOnce ==
  \A s \in Slots :
    (Returned(s, "autoCancel") /\ calls[s].result = "void") =>
      \A i \in calls[s].matched :
        /\ Count(calls[s].visits, <<i, "update">>) = 1
        /\ Count(calls[s].visits, <<i, "log">>) = 1

\* C9: when a sweep has returned, with or without a failed store call, every
\* booking of its query result other than the one the failure hit is
\* cancelled and logged.
C9_SweepSurvivesFailure ==
  \A s \in Slots :
    Returned(s, "autoCancel") =>
      \A k \in DOMAIN calls[s].page :
        calls[s].page[k] # calls[s].failedOn =>
          /\ bookings[calls[s].page[k]].status = "cancelled"
          /\ GainedOneExpiredEntry(calls[s].snap.bookings[calls[s].page[k]],
                                   bookings[calls[s].page[k]])

(***************************************************************************)
(* SpecRace: two createBooking requests for confirmed bookings on partner  *)
(* p1 in flight at once, their store calls interleaved in any order.       *)
(***************************************************************************)
RaceInputs ==
  {BookingData("p1", w, "confirmed") : w \in {w \in Windows : w[1] < w[2]}}

CreatesInFlight ==
  Cardinality({s \in Slots : calls[s].op = "createBooking" /\ calls[s].pc # "done"})

NextRace ==
  \/ \E s \in Slots, bookingData \in RaceInputs :
        /\ Len(bookings) + CreatesInFlight < MaxRaceBookings
        /\ StartCreateBooking(s, bookingData)
  \/ \E s \in Slots : CreateFindPartner(s)
  \/ \E s \in Slots : CreateConflictQuery(s)
  \/ \E s \in Slots : CreateInsert(s)

SpecRace == Init /\ [][NextRace]_vars

\* Two stored bookings are both confirmed, on one partner, with windows that
\* overlap (half-open) without the earlier one strictly containing the later.
DoubleBooked(i, j) ==
  /\ bookings[i].partnerId = bookings[j].partnerId
  /\ bookings[i].status = "confirmed" /\ bookings[j].status = "confirmed"
  /\ Overlaps(bookings[i], bookings[j])
  /\ ~(bookings[i].startTime < bookings[j].startTime
       /\ bookings[i].endTime > bookings[j].endTime)

\* C10: two concurrent createBooking requests can leave two overlapping
\* confirmed bookings on one partner (C10_Witness is such a state), and such
\* a pair comes about only when the later booking's conflict query ran before
\* the earlier one was inserted: both passed the check before either insert.
C10_DoubleBookingOnlyByRace ==
  \A i, j \in DOMAIN bookings :
    (i < j /\ DoubleBooked(i, j)) => checkLen[j] < i

\* Both requests passed the conflict query on the empty collection and both
\* inserts succeeded: partner p1 holds two overlapping confirmed bookings.
C10_Witness ==
  /\ Len(bookings) >= 2
  /\ DoubleBooked(1, 2)
  /\ checkLen[1] = 0 /\ checkLen[2] = 0
  /\ \A s \in Slots : Returned(s, "createBooking") /\ calls[s].result = "created"

(***************************************************************************)
(* SpecCancelFault: SpecCancel's requests over a smaller store, where a    *)
(* store call awaited by cancelBooking may reject.                         *)
(***************************************************************************)
NextCancelFault ==
  \/ \E bookingData \in CancelSeedInputs :
        /\ NoCallRunning
        /\ Len(bookings) < MaxFaultBookings
        /\ StartCreateBooking(1, bookingData)
  \/ CreateFindPartner(1)
  \/ CreateConflictQuery(1)
  \/ CreateInsert(1)
  \/ \E bookingId \in 1..(MaxFaultBookings + 1), clientId \in Clients :
        /\ NoCallRunning
        /\ CancelCount(DOMAIN partners) < MaxCancels
        /\ StartCancelBooking(1, bookingId, clientId)
  \/ CancelFind(1)
  \/ CancelRefund(1)
  \/ CancelLogPartner(1)
  \/ CancelUpdate(1)
  \/ CancelStepFails(1)

SpecCancelFault == Init /\ [][NextCancelFault]_vars

\* How far a cancelBooking call that passed its checks has come: the await it
\* is at, the await that rejected, or "end" when it returned normally.
CancelStage(s) ==
  IF calls[s].pc # "done" THEN calls[s].pc
  ELSE IF calls[s].result = "Error" THEN calls[s].failedAt
  ELSE "end"

PaidWith(b) ==
  b.paymentId # NoPayment /\ b.paymentId \in DOMAIN payments /\ b.amount > 0

\* C11: cancelBooking writes in the order refund, partner audit entry,
\* booking status, and undoes nothing: at the partner-log await and at the
\* status-update await, and in the final state of a call that failed at
\* either, the booking's payment is marked refunded with the booking's amount
\* while every booking is still as it was at entry; the partner
\* entry is written only once the refund step is past, the status only in a
\* call that returned normally.
C11_CancelOrderNoCompensation ==
  \A s \in Slots :
    (calls[s].op = "cancelBooking" /\ calls[s].booking # <<>>) =>
      LET snap  == calls[s].snap
          id    == calls[s].data.bookingId
          b     == calls[s].booking[1]
          stage == CancelStage(s)
      IN  /\ stage = "refund" => SameCollections(snap)
          /\ stage \in {"logPartner", "update"} =>
                /\ PaidWith(b) => /\ payments[b.paymentId].isRefunded
                                  /\ payments[b.paymentId].refundAmount = b.amount
                /\ bookings = snap.bookings
          /\ stage = "logPartner" => partners = snap.partners
          /\ stage \in {"update", "end"} =>
                Len(partners[b.partnerId].auditLogs)
                  = Len(snap.partners[b.partnerId].auditLogs) + 1
          /\ stage = "end" => bookings[id].status = "cancelled"

\* A cancellation has failed at the status update: payment pay1 is marked
\* refunded, the partner entry is written, the booking is still pending.
C11_Witness ==
  \E s \in Slots :
    /\ Returned(s, "cancelBooking")
    /\ calls[s].result = "Error"
    /\ calls[s].failedAt = "update"
    /\ calls[s].booking[1].paymentId = "pay1"
    /\ payments["pay1"].isRefunded
    /\ bookings[calls[s].data.bookingId].status = "pending"

(***************************************************************************)
(* SpecStatus: createBooking with every status a caller may supply, and    *)
(* updateBookingStatus, one request at a time.                             *)
(***************************************************************************)
SuppliedStatuses == BookingStatuses \cup {NoStatus, "refunded"}

\* updateBookingStatus writes its argument unvalidated.
StatusArgs == BookingStatuses \cup {"refunded"}

StatusSeedInputs == {BookingData("p1", <<0, 1>>, st) : st \in SuppliedStatuses}

RECURSIVE AuditCount(_)
AuditCount(ids) ==
  IF ids = {} THEN 0
  ELSE LET i == CHOOSE j \in ids : TRUE
       IN  Len(bookings[i].auditLogs) + AuditCount(ids \ {i})

NextStatus ==
  \/ \E bookingData \in StatusSeedInputs :
        /\ NoCallRunning
        /\ Len(bookings) < MaxStatusBookings
        /\ StartCreateBooking(1, bookingData)
  \/ CreateFindPartner(1)
  \/ CreateConflictQuery(1)
  \/ CreateInsert(1)
  \/ \E bookingId \in 1..(MaxStatusBookings + 1), status \in StatusArgs :
        /\ NoCallRunning
        /\ AuditCount(DOMAIN bookings) < MaxStatusUpdates
        /\ StartUpdateBookingStatus(1, bookingId, status)
  \/ StatusUpdate(1)
  \/ StatusLog(1)

SpecStatus == Init /\ [][NextStatus]_vars

\* The status transitions the booking lifecycle allows.
AllowedTransitions ==
  {<<"pending", "confirmed">>, <<"pending", "cancelled">>,
   <<"pending", "expired">>, <<"confirmed", "completed">>,
   <<"confirmed", "cancelled">>, <<"confirmed", "no-show">>}

\* C12: every change of a stored booking's status is one of the allowed
\* transitions pending -> confirmed | cancelled | expired and
\* confirmed -> completed | cancelled | no-show; in particular a completed,
\* cancelled, expired or no-show booking never changes status again.
C12_StatusTransitions ==
  [][\A i \in DOMAIN bookings :
       (i \in DOMAIN bookings' /\ bookings'[i].status # bookings[i].status)
         => <<bookings[i].status, bookings'[i].status>> \in AllowedTransitions]_vars

\* C13 as stated: updateBookingStatus on a bookingId that resolves to no
\* stored booking fails with NotFound and changes no booking and no audit log.
C13_MissingFailsNotFound ==
  \A s \in Slots :
    ( /\ Returned(s, "updateBookingStatus")
      /\ calls[s].data.bookingId \notin DOMAIN calls[s].snap.bookings )
    => /\ calls[s].result = "NotFound"
       /\ SameCollections(calls[s].snap)

\* C13, amended: updateBookingStatus on a bookingId that resolves to no
\* stored booking raises no error and returns null; it changes no booking
\* and no audit log.
C13_MissingReturnsNull ==
  \A s \in Slots :
    ( /\ Returned(s, "updateBookingStatus")
      /\ calls[s].data.bookingId \notin DOMAIN calls[s].snap.bookings )
    => /\ calls[s].result = "null"
       /\ SameCollections(calls[s].snap)

\* updateBookingStatus has returned for an id beyond the one stored booking.
C13_Witness ==
  \E s \in Slots :
    /\ Returned(s, "updateBookingStatus")
    /\ calls[s].data.bookingId \notin DOMAIN bookings
    /\ Len(bookings) > 0

\* C14: updateBookingStatus on a stored booking first sets its status, then
\* appends exactly one entry 'Status updated to <status>' to that booking's
\* audit log, also when the new status equals the old one; no other field of
\* the booking, no other booking, no partner and no payment changes.
C14_StatusThenOneAuditEntry ==
  \A s \in Slots :
    ( /\ calls[s].op = "updateBookingStatus"
      /\ calls[s].data.bookingId \in DOMAIN calls[s].snap.bookings )
    => LET snap   == calls[s].snap
           id     == calls[s].data.bookingId
           status == calls[s].data.status
           set    == [snap.bookings[id] EXCEPT !.status = status]
           entry  == [action |-> StatusAction(status), timestamp |-> now]
       IN  /\ calls[s].pc = "update" => bookings = snap.bookings
           /\ calls[s].pc = "log" =>
                 bookings = [snap.bookings EXCEPT ![id] = set]
           /\ calls[s].pc = "done" =>
                 bookings = [snap.bookings EXCEPT ![id] =
                    [set EXCEPT !.auditLogs = Append(@, entry)]]
           /\ partners = snap.partners
           /\ payments = snap.payments

\* updateBookingStatus has returned after writing the status the booking
\* already had, and the audit log has the entry for it.
C14_Witness ==
  \E s \in Slots :
    /\ Returned(s, "updateBookingStatus")
    /\ calls[s].data.bookingId \in DOMAIN calls[s].snap.bookings
    /\ calls[s].snap.bookings[calls[s].data.bookingId].status = calls[s].data.status
    /\ Len(bookings[calls[s].data.bookingId].auditLogs)
         = Len(calls[s].snap.bookings[calls[s].data.bookingId].auditLogs) + 1

\* C20: a booking stored by a successful createBooking has exactly the
\* status the caller supplied, be it 'confirmed' or a terminal status, and
\* 'pending' when the caller supplied none.
C20_CreatedStatusAsSupplied ==
  \A s \in Slots :
    (Returned(s, "createBooking") /\ calls[s].result = "created") =>
      /\ Len(bookings) = Len(calls[s].snap.bookings) + 1
      /\ bookings[Len(bookings)].status =
           IF calls[s].data.status = NoStatus THEN "pending"
           ELSE calls[s].data.status

\* createBooking has stored a booking that the caller supplied as 'completed'.
C20_Witness ==
  \E s \in Slots :
    /\ Returned(s, "createBooking") /\ calls[s].result = "created"
    /\ calls[s].data.status = "completed"
    /\ bookings[Len(bookings)].status = "completed"

\* createBooking has stored as 'pending' a booking supplied without a status.
C20_WitnessDefault ==
  \E s \in Slots :
    /\ Returned(s, "createBooking") /\ calls[s].result = "created"
    /\ calls[s].data.status = NoStatus
    /\ bookings[Len(bookings)].status = "pending"

\* C15: a successful cancelBooking appends exactly one audit entry, 'Booking
\* Cancelled', to the log of the booking's partner and leaves every other
\* partner as it was; the entry is in place at the status-update await,
\* while the bookings are still as at entry.
C15_CancelLogsOwnPartner ==
  \A s \in Slots :
    (calls[s].op = "cancelBooking" /\ calls[s].booking # <<>>) =>
      LET snap   == calls[s].snap
          p      == calls[s].booking[1].partnerId
          logged ==
            /\ partners[p].auditLogs =
                 Append(snap.partners[p].auditLogs,
                        [action |-> "Booking Cancelled", timestamp |-> now])
            /\ \A q \in DOMAIN partners \ {p} : partners[q] = snap.partners[q]
      IN  /\ calls[s].pc \in {"refund", "logPartner"} => partners = snap.partners
          /\ calls[s].pc = "update" => logged /\ bookings = snap.bookings
          /\ (calls[s].pc = "done" /\ calls[s].result = "cancelled") =>
                /\ logged
                /\ bookings[calls[s].data.bookingId].status = "cancelled"

\* A booking of partner p2 has been cancelled after one of partner p1: each
\* partner's log holds one entry.
C15_Witness ==
  \E s \in Slots :
    /\ Returned(s, "cancelBooking") /\ calls[s].result = "cancelled"
    /\ calls[s].booking[1].partnerId = "p2"
    /\ Len(calls[s].snap.partners["p2"].auditLogs) = 0
    /\ Len(partners["p2"].auditLogs) = 1
    /\ Len(partners["p1"].auditLogs) = 1

(***************************************************************************)
(* SpecLife: the five operations that write bookings -- createBooking,     *)
(* updateBooking, updateBookingStatus, cancelBooking and the expiration    *)
(* sweep -- one request at a time, while the clock advances.               *)
(***************************************************************************)
LifeSeedInputs ==
  {[BookingData("p1", w, NoStatus) EXCEPT !.paymentId = "pay1"] :
     w \in {<<0, 1>>, <<1, 1>>}}

\* updateData: a status, a non-enum status, a window that ends before it starts.
LifeUpdates ==
  {[status |-> "completed"], [status |-> "refunded"],
   [startTime |-> 2, endTime |-> 1]}

\* Between two requests the clock passes the 30 minutes of the sweep's filter.
Elapse ==
  /\ now + ExpiryTicks + 1 <= MaxLifeNow
  /\ now' = now + ExpiryTicks + 1
  /\ UNCHANGED <<bookings, partners, payments, calls, refundLog, checkLen, faults, authVars>>

EntriesWritten == AuditCount(DOMAIN bookings) + CancelCount(DOMAIN partners)

NextLife ==
  \/ \E bookingData \in LifeSeedInputs :
        /\ NoCallRunning
        /\ Len(bookings) < MaxLifeBookings
        /\ StartCreateBooking(1, bookingData)
  \/ CreateFindPartner(1)
  \/ CreateConflictQuery(1)
  \/ CreateInsert(1)
  \/ \E bookingId \in 1..(MaxLifeBookings + 1), updateData \in LifeUpdates :
        /\ NoCallRunning
        /\ StartUpdateBooking(1, bookingId, updateData)
  \/ UpdateFind(1)
  \/ UpdateApply(1)
  \/ \E bookingId \in 1..(MaxLifeBookings + 1) :
        /\ NoCallRunning
        /\ EntriesWritten < MaxLifeEntries
        /\ StartUpdateBookingStatus(1, bookingId, "confirmed")
  \/ StatusUpdate(1)
  \/ StatusLog(1)
  \/ \E bookingId \in 1..(MaxLifeBookings + 1) :
        /\ NoCallRunning
        /\ EntriesWritten < MaxLifeEntries
        /\ StartCancelBooking(1, bookingId, "c1")
  \/ CancelFind(1)
  \/ CancelRefund(1)
  \/ CancelLogPartner(1)
  \/ CancelUpdate(1)
  \/ /\ NoCallRunning
     /\ EntriesWritten < MaxLifeEntries
     /\ StartSweep(1)
  \/ SweepQuery(1)
  \/ SweepUpdate(1)
  \/ SweepLog(1)
  \/ NoCallRunning /\ Elapse

SpecLife == Init /\ [][NextLife]_vars

\* C16: no step of createBooking, updateBooking, updateBookingStatus,
\* cancelBooking or the sweep removes a booking: every stored booking
\* identity is still stored after the step.
C16_NoBookingRemoved ==
  [][DOMAIN bookings \subseteq DOMAIN bookings']_vars

\* updateBooking has returned on a booking that a cancellation or a sweep
\* had cancelled before: the booking is still stored.
C16_Witness ==
  \E s \in Slots :
    /\ Returned(s, "updateBooking") /\ calls[s].result = "updated"
    /\ calls[s].data.bookingId \in DOMAIN bookings
    /\ calls[s].snap.bookings[calls[s].data.bookingId].status = "cancelled"

\* C18: every stored booking starts strictly before it ends, after
\* createBooking and after updateBooking.
C18_StartBeforeEnd ==
  \A i \in DOMAIN bookings : bookings[i].startTime < bookings[i].endTime

(***************************************************************************)
(* SpecPayRef: createBooking with caller-supplied payment references,      *)
(* while payments are deleted through PaymentRepository.deletePayment.     *)
(***************************************************************************)
NextPayRef ==
  \/ \E bookingData \in CancelSeedInputs :
        /\ NoCallRunning
        /\ Len(bookings) < MaxPayRefBookings
        /\ StartCreateBooking(1, bookingData)
  \/ CreateFindPartner(1)
  \/ CreateConflictQuery(1)
  \/ CreateInsert(1)
  \/ \E paymentId \in {"pay1", "pay2", "pay0"} : DeletePayment(paymentId)

SpecPayRef == Init /\ [][NextPayRef]_vars

\* C19: a stored booking whose payment reference is not null refers to a
\* Payment record that exists.
C19_PaymentRefResolves ==
  \A i \in DOMAIN bookings :
    bookings[i].paymentId # NoPayment => bookings[i].paymentId \in DOMAIN payments

(***************************************************************************)
(* SpecSweepRace: two invocations of the expiration sweep in flight at     *)
(* once, their store calls interleaved in any order, over a store of up to *)
(* MaxSeed bookings of which the old pending ones have expired.            *)
(***************************************************************************)
InitSweepRace ==
  /\ \E n \in 0..MaxSeed, young \in 0..1, conf \in BOOLEAN :
        /\ young <= n
        /\ bookings = SeedStore(n, young, conf)
        /\ checkLen = [i \in 1..n |-> i - 1]
  /\ partners = PartnerTable
  /\ payments = PaymentTable
  /\ now = ExpiryTicks + 1
  /\ calls = [s \in Slots |-> Idle]
  /\ refundLog = <<>>
  /\ faults = 0
  /\ AuthInit

NextSweepRace ==
  \/ \E s \in Slots : calls[s].op = "idle" /\ StartSweep(s)
  \/ \E s \in Slots : SweepQuery(s)
  \/ \E s \in Slots : SweepUpdate(s)
  \/ \E s \in Slots : SweepLog(s)

SpecSweepRace == InitSweepRace /\ [][NextSweepRace]_vars

\* C17: when two concurrent sweeps have both returned, every booking that
\* was pending and older than 30 minutes when a sweep queried is 'cancelled',
\* and every other booking has the status it had then -- the statuses one
\* sweep alone is to leave.
C17_ConcurrentSweepsAsOne ==
  (\A s \in Slots : Returned(s, "autoCancel") /\ calls[s].result = "void") =>
    \A i \in DOMAIN bookings :
      IF \E s \in Slots : i \in calls[s].matched
      THEN bookings[i].status = "cancelled"
      ELSE \A s \in Slots : bookings[i].status = calls[s].snap.bookings[i].status

(***************************************************************************)
(* SpecOverlap: createBooking with overlapping windows on two partners in  *)
(* every status, and updateBookingStatus to 'confirmed', one request at a  *)
(* time.                                                                   *)
(***************************************************************************)
OverlapInputs ==
  {BookingData(p, w, st) : p \in {"p1", "p2"}, w \in {<<0, 2>>, <<1, 3>>},
                           st \in BookingStatuses \cup {NoStatus}}

NextOverlap ==
  \/ \E bookingData \in OverlapInputs :
        /\ NoCallRunning
        /\ Len(bookings) < MaxOverlapBookings
        /\ StartCreateBooking(1, bookingData)
  \/ CreateFindPartner(1)
  \/ CreateConflictQuery(1)
  \/ CreateInsert(1)
  \/ \E bookingId \in 1..MaxOverlapBookings :
        /\ NoCallRunning
        /\ AuditCount(DOMAIN bookings) < MaxOverlapUpdates
        /\ StartUpdateBookingStatus(1, bookingId, "confirmed")
  \/ StatusUpdate(1)
  \/ StatusLog(1)

SpecOverlap == Init /\ [][NextOverlap]_vars

\* C21: createBooking fails with BookingConflict only over a stored booking
\* that is 'confirmed', on the request's partner and overlapping the request;
\* overlapping bookings in any other status or on another partner never
\* cause it.
C21_ConflictOnlyConfirmedSamePartner ==
  \A s \in Slots :
    (Returned(s, "createBooking") /\ calls[s].result = "BookingConflict") =>
      \E i \in DOMAIN calls[s].snap.bookings :
        /\ calls[s].snap.bookings[i].status = "confirmed"
        /\ calls[s].snap.bookings[i].partnerId = calls[s].data.partnerId
        /\ Overlaps(calls[s].snap.bookings[i], calls[s].data)

\* A confirmed booking has been created over an overlapping cancelled
\* booking of the same partner.
C21_Witness ==
  \E s \in Slots :
    /\ Returned(s, "createBooking") /\ calls[s].result = "created"
    /\ calls[s].data.status = "confirmed"
    /\ \E i \in DOMAIN calls[s].snap.bookings :
         /\ calls[s].snap.bookings[i].status = "cancelled"
         /\ calls[s].snap.bookings[i].partnerId = calls[s].data.partnerId
         /\ Overlaps(calls[s].snap.bookings[i], calls[s].data)

\* A confirmed booking has been created while another partner holds an
\* overlapping confirmed booking.
C21_WitnessOtherPartner ==
  \E s \in Slots :
    /\ Returned(s, "createBooking") /\ calls[s].result = "created"
    /\ calls[s].data.status = "confirmed"
    /\ \E i \in DOMAIN calls[s].snap.bookings :
         /\ calls[s].snap.bookings[i].status = "confirmed"
         /\ calls[s].snap.bookings[i].partnerId # calls[s].data.partnerId
         /\ Overlaps(calls[s].snap.bookings[i], calls[s].data)

\* C25: whenever no request is in flight, no two stored bookings of one
\* partner that are both 'confirmed' have overlapping half-open windows.
C25_NoOverlappingConfirmed ==
  NoCallRunning =>
    \A i, j \in DOMAIN bookings :
      ( /\ i < j
        /\ bookings[i].partnerId = bookings[j].partnerId
        /\ bookings[i].status = "confirmed"
        /\ bookings[j].status = "confirmed" )
      => ~Overlaps(bookings[i], bookings[j])

(***************************************************************************)
(* SpecSweepConfirm: one expiration sweep and updateBookingStatus requests *)
(* that confirm bookings, in flight at once, over a store of expired       *)
(* pending bookings.                                                       *)
(***************************************************************************)
InitSweepConfirm ==
  /\ \E n \in 1..MaxMixSeed :
        /\ bookings = SeedStore(n, 0, FALSE)
        /\ checkLen = [i \in 1..n |-> i - 1]
  /\ partners = PartnerTable
  /\ payments = PaymentTable
  /\ now = ExpiryTicks + 1
  /\ calls = [s \in Slots |-> Idle]
  /\ refundLog = <<>>
  /\ faults = 0
  /\ AuthInit

NextSweepConfirm ==
  \/ calls[1].op = "idle" /\ StartSweep(1)
  \/ SweepQuery(1)
  \/ SweepUpdate(1)
  \/ SweepLog(1)
  \/ \E bookingId \in DOMAIN bookings :
        /\ AuditCount(DOMAIN bookings) < MaxMixEntries
        /\ StartUpdateBookingStatus(2, bookingId, "confirmed")
  \/ StatusUpdate(2)
  \/ StatusLog(2)

SpecSweepConfirm == InitSweepConfirm /\ [][NextSweepConfirm]_vars

\* C26: the sweep writes 'cancelled' only to a booking that is 'pending'
\* when the write is made; a booking of its query result that a concurrent
\* updateBookingStatus has confirmed since the query is not overwritten.
C26_SweepCancelsOnlyPending ==
  [][\A s \in Slots :
       ( /\ calls[s].op = "autoCancel" /\ calls[s].pc = "update"
         /\ calls'[s].pc = "log" )
       => bookings[Head(calls[s].todo)].status = "pending"]_vars

\* C27: a cancelBooking by the owning client on a booking that is already
\* 'cancelled', 'completed', 'expired' or 'no-show' issues no refund and
\* adds no cancellation entry to the partner's log, so that repeated
\* cancellations of one booking refund and log at most once.
C27_RepeatedCancelRefundsOnce ==
  \A s \in Slots :
    ( /\ Returned(s, "cancelBooking")
      /\ calls[s].result = "cancelled"
      /\ calls[s].snap.bookings[calls[s].data.bookingId].status
           \in {"cancelled", "completed", "expired", "no-show"} )
    => /\ refundLog = calls[s].snap.refundLog
       /\ payments = calls[s].snap.payments
       /\ partners = calls[s].snap.partners

ExpiredEntries(b) ==
  Cardinality({k \in DOMAIN b.auditLogs : b.auditLogs[k].action = ExpiredAction})

\* C28: when two concurrent sweeps have both returned, every booking that
\* was pending and older than 30 minutes when a sweep queried has exactly one
\* 'Booking auto-cancelled due to expiration' entry in its audit log.
C28_ConcurrentSweepsLogOnce ==
  (\A s \in Slots : Returned(s, "autoCancel") /\ calls[s].result = "void") =>
    \A s \in Slots : \A i \in calls[s].matched :
      ExpiredEntries(bookings[i]) = 1

(***************************************************************************)
(* SpecLogin: handleFailedLogin and resetFailedLoginAttempts on two users  *)
(* and on a user id that does not exist, one request at a time.            *)
(***************************************************************************)
UserRefs == {"u1", "u2", "u0"}

NextLogin ==
  \/ \E userId \in UserRefs :
        /\ NoCallRunning
        /\ userId \in DOMAIN users => users[userId].failedLoginAttempts < MaxFails
        /\ StartHandleFailedLogin(1, userId)
  \/ FailedLoginFind(1)
  \/ FailedLoginUpdate(1)
  \/ \E userId \in UserRefs : NoCallRunning /\ ResetFailedLoginAttempts(1, userId)

SpecLogin == Init /\ [][NextLogin]_vars

FailedLoginsInFlight ==
  Cardinality({s \in Slots : calls[s].op = "handleFailedLogin"
                               /\ calls[s].pc # "done"})

NextLoginRace ==
  \/ \E s \in Slots :
        /\ failedCalls["u1"] + FailedLoginsInFlight < MaxRaceFails
        /\ StartHandleFailedLogin(s, "u1")
  \/ \E s \in Slots : FailedLoginFind(s)
  \/ \E s \in Slots : FailedLoginUpdate(s)

SpecLoginRace == Init /\ [][NextLoginRace]_vars

\* C29: when N handleFailedLogin calls for one user have returned, however
\* their reads and writes interleaved, the stored failedLoginAttempts has
\* grown by N, and the account is locked once N reaches 5.
C29_ConcurrentFailuresCounted ==
  NoCallRunning =>
    /\ users["u1"].failedLoginAttempts = failedCalls["u1"]
    /\ failedCalls["u1"] >= 5 => users["u1"].accountLocked

(***************************************************************************)
(* SpecAdmin: updateAdminRole on a superadmin, a supervisor and an admin   *)
(* id that does not exist, one request at a time.                          *)
(***************************************************************************)
NextAdmin ==
  \/ \E adminId \in {"a1", "a2", "a0"},
        role \in ValidRoles \cup {"supervisor"},
        requestingAdminRole \in ValidRoles \cup {"supervisor"} :
        /\ NoCallRunning
        /\ StartUpdateAdminRole(1, adminId, role, requestingAdminRole)
  \/ AdminRoleUpdate(1)

SpecAdmin == Init /\ [][NextAdmin]_vars

\* C24: an updateAdminRole call whose requestingAdminRole is not
\* 'superadmin' makes no admin a superadmin and leaves every admin that is a
\* superadmin as it is; a call with a role outside {superadmin, admin,
\* moderator} fails with an error and changes no admin.
C24_SuperadminOnly ==
  \A s \in Slots :
    calls[s].op = "updateAdminRole" =>
      LET snap == calls[s].snap
      IN  /\ calls[s].data.requestingAdminRole # "superadmin" =>
                \A a \in DOMAIN admins :
                  /\ admins[a].role = "superadmin"
                       => snap.admins[a].role = "superadmin"
                  /\ snap.admins[a].role = "superadmin"
                       => admins[a] = snap.admins[a]
          /\ calls[s].data.role \notin {"superadmin", "admin", "moderator"} =>
                /\ calls[s].pc = "done"
                /\ calls[s].result = "InvalidRole"
                /\ admins = snap.admins

\* An 'admin' has asked to make superadmin a1 a moderator: the call passed
\* both checks of the service, the store refused the role, a1 is unchanged.
C24_Witness ==
  \E s \in Slots :
    /\ Returned(s, "updateAdminRole")
    /\ calls[s].data = [adminId |-> "a1", role |-> "moderator",
                        requestingAdminRole |-> "admin"]
    /\ calls[s].result = "ValidationError"
    /\ admins["a1"].role = "superadmin"
    /\ admins["a2"].role = "superadmin"

(***************************************************************************)
(* SpecAuth: logins, logouts and token verifications of two users in one   *)
(* process, two requests at a time.                                        *)
(***************************************************************************)
MaxLogouts == 2

\* Tokens a client may present: each user's token from a login, and one
\* signed with another key.
PresentedTokens ==
  {GenerateToken(u) : u \in DOMAIN users}
    \cup {[id |-> "u1", iat |-> now, sig |-> "other"]}

LogoutsCalled ==
  Cardinality({s \in Slots : calls[s].op = "logoutUser" /\ calls[s].pc = "log"})
    + Len(users["u1"].auditLogs) + Len(users["u2"].auditLogs)

NextAuth ==
  \/ \E s \in Slots, token \in PresentedTokens : VerifyTokenCall(s, token)
  \/ \E s \in Slots, userId \in UserRefs, password \in {"pw0", "pw1"} :
        AuthenticateUser(s, userId, password)
  \/ \E s \in Slots, token \in PresentedTokens, userId \in {"u1", "u2"} :
        /\ LogoutsCalled < MaxLogouts
        /\ LogoutStart(s, token, userId)
  \/ \E s \in Slots : LogoutLog(s)

SpecAuth == Init /\ [][NextAuth]_vars

\* C22: no step takes a token out of the blacklist; a step adds only the
\* token of the logoutUser call made in that step; and every verifyToken
\* call made on a token that is in the blacklist returns null, while one
\* made on a token that is not in it returns what jwt.verify gives.
C22_LogoutIsFinal ==
  [][ /\ blacklist \subseteq blacklist'
      /\ \A t \in blacklist' \ blacklist :
           \E s \in Slots : /\ calls'[s] # calls[s]
                            /\ calls'[s].op = "logoutUser"
                            /\ calls'[s].data.token = t
      /\ \A s \in Slots :
           (calls'[s] # calls[s] /\ calls'[s].op = "verifyToken") =>
             LET token == calls'[s].data.token
             IN  /\ token \in blacklist => calls'[s].result = "null"
                 /\ token \notin blacklist =>
                       calls'[s].result =
                         IF token.sig = "jwtSecret" THEN "decoded" ELSE "null"
    ]_vars

\* u1's token has been logged out and then refused, and u2's token, which
\* was not, has been accepted afterwards.
C22_Witness ==
  /\ blacklist = {[id |-> "u1", iat |-> 0, sig |-> "jwtSecret"]}
  /\ Returned(1, "verifyToken")
  /\ calls[1].data.token \in calls[1].snap.blacklist
  /\ calls[1].data.token.sig = "jwtSecret"
  /\ calls[1].result = "null"
  /\ Returned(2, "verifyToken")
  /\ calls[2].data.token = [id |-> "u2", iat |-> 0, sig |-> "jwtSecret"]
  /\ calls[2].snap.blacklist = blacklist
  /\ calls[2].result = "decoded"
  /\ Len(users["u1"].auditLogs) = 1

(***************************************************************************)
(* SpecReset: password reset tokens issued to two users and presented to   *)
(* resetPassword while the clock runs past their hour.                     *)
(***************************************************************************)
ResetTokens == {"r1", "r2"}

NextReset ==
  \/ \E userId \in UserRefs, resetToken \in ResetTokens :
        GeneratePasswordResetToken(1, userId, resetToken)
  \/ \E resetToken \in ResetTokens \cup {"r0"}, newPassword \in {"pw1", "pw2"} :
        ResetPassword(1, resetToken, newPassword)
  \/ Tick

SpecReset == Init /\ [][NextReset]_vars

\* C30: a resetPassword call that presents a token some user holds and that
\* has not expired succeeds, leaving that user with the new password and
\* with resetToken and resetTokenExpires null (so that the token cannot
\* succeed again); a call that presents an expired token, or one no user
\* holds, fails with 'Invalid or expired reset token' and changes no user.
C30_ResetTokenOnce ==
  \A s \in Slots :
    Returned(s, "resetPassword") =>
      LET snap    == calls[s].snap
          token   == calls[s].data.resetToken
          holders == {u \in DOMAIN snap.users :
                        /\ snap.users[u].resetToken = token
                        /\ snap.users[u].resetTokenExpires >= calls[s].at}
      IN  IF holders # {}
          THEN /\ calls[s].result = "updated"
               /\ \A u \in holders :
                    /\ users[u].password =
                         HashPassword(calls[s].data.newPassword)
                    /\ users[u].resetToken = "null"
          ELSE /\ calls[s].result = "InvalidOrExpired"
               /\ users = snap.users

====
